---------------------------- MODULE Spec2Model ----------------------------
(***************************************************************************)
(* Obo Car: the vehicle of src/python-lib/obocar/vehicle.py (class OboChar, *)
(* local arithmetic only) and the vehicle of src/public/python/obocar.py    *)
(* (class OboChar driven together with the 3D renderer window.oboCarAPI).   *)
(*                                                                         *)
(* Numbers.  The program computes in IEEE doubles.  The model is a fixed    *)
(* point one: lengths, battery percentages and sensor readings are kept in  *)
(* hundredths (3.0 units = 300, 0.5 % = 50, 0.1 = 10), angles in whole      *)
(* degrees, sines in thousandths, and a product is rounded to the nearest   *)
(* hundredth.  Values that the program draws with random.* or receives from *)
(* the renderer are inputs chosen from small sets.                          *)
(***************************************************************************)
EXTENDS Integers, Sequences, FiniteSets, TLC

VARIABLES
    in_browser,      \* IN_BROWSER: FALSE = vehicle.py, TRUE = public/python/obocar.py with a renderer
    position,        \* self.position, <<x, y>> in hundredths
    angle,           \* self.angle, degrees
    battery_level,   \* self.battery_level, hundredths of a percent
    total_distance,  \* self.total_distance, hundredths
    obstacles,       \* self.obstacles, sequence of <<x, y>>
    event_log,       \* self._event_log, sequence of events
    caps,            \* the attributes window.oboCarAPI has (hasattr)
    broken,          \* the renderer methods that raise when called
    js,              \* what the renderer answers to its get* methods
    calls,           \* the renderer calls made by the last operation, in order
    last,            \* the last operation: name, arguments, result, exception
    pre,             \* the vehicle's fields when the last operation was entered
    collided,        \* number of times _check_collisions returned True since creation/reset
    views,           \* the lists get_event_log() and get_obstacles() returned, as the caller holds them
    clock,           \* time.time(): one tick per operation
    loop             \* the loop run_loop runs or has registered: its counters and position

vars == <<in_browser, position, angle, battery_level, total_distance, obstacles,
          event_log, caps, broken, js, calls, last, pre, collided, views, clock,
          loop>>

-----------------------------------------------------------------------------
(* Bounds *)

MaxSteps == 2          \* operations per behaviour
MaxBridgedSteps == 2   \* operations per behaviour next to a renderer
MaxTurns == 3          \* left/right calls per behaviour of the turning drive
MaxDrive == 3          \* operations per behaviour of the battery drive
MaxSquareSteps == 8    \* operations per behaviour of the square drive
MaxCoord == 13000      \* |x|, |y| of the vehicle stay below this (130 units)
MaxSensorSteps == 2    \* operations per behaviour of the sensor readings
MaxLogSteps == 3       \* operations per behaviour of the logged commands
MaxCallerSteps == 4    \* operations and caller statements per behaviour
MaxView == 12          \* entries of a list the caller holds
MaxCarSteps == 2       \* operations per behaviour of the OboCar vehicle
MaxSchedulerCalls == 4 \* calls of a registered step function by the renderer's scheduler

(* Fixed point *)

Scale == 100           \* one unit
SinScale == 1000       \* one, for sines

Abs(n) == IF n < 0 THEN 0 - n ELSE n

Max(a, b) == IF a >= b THEN a ELSE b

\* n / m rounded to the nearest integer, halves away from zero (m > 0)
RoundDiv(n, m) ==
    IF n >= 0 THEN (2 * n + m) \div (2 * m)
              ELSE 0 - ((2 * (0 - n) + m) \div (2 * m))

\* round(v, 1) and the format {v:.1f}: v rounded to a tenth, halves to even
Round1(v) ==
    LET q == v \div 10
        r == v % 10
    IN  IF r < 5 THEN 10 * q
        ELSE IF r > 5 THEN 10 * (q + 1)
        ELSE IF q % 2 = 0 THEN 10 * q ELSE 10 * (q + 1)

\* math.sin of 0..90 degrees, in thousandths
SinTable ==
    << 0, 17, 35, 52, 70, 87, 105, 122, 139, 156, 174, 191, 208, 225, 242,
       259, 276, 292, 309, 326, 342, 358, 375, 391, 407, 423, 438, 454, 469,
       485, 500, 515, 530, 545, 559, 574, 588, 602, 616, 629, 643, 656, 669,
       682, 695, 707, 719, 731, 743, 755, 766, 777, 788, 799, 809, 819, 829,
       839, 848, 857, 866, 875, 883, 891, 899, 906, 914, 921, 927, 934, 940,
       946, 951, 956, 961, 966, 970, 974, 978, 982, 985, 988, 990, 993, 995,
       996, 998, 999, 999, 1000, 1000 >>

\* math.sin(math.radians(a)) in thousandths, a any whole number of degrees
Sin(a) ==
    LET d == a % 360
    IN  IF d <= 90 THEN SinTable[d + 1]
        ELSE IF d <= 180 THEN SinTable[180 - d + 1]
        ELSE IF d <= 270 THEN 0 - SinTable[d - 180 + 1]
        ELSE 0 - SinTable[360 - d + 1]

\* math.cos(math.radians(a)) in thousandths
Cos(a) == Sin(a + 90)

RECURSIVE SqrtSearch(_, _, _)
SqrtSearch(n, lo, hi) ==
    IF lo >= hi THEN lo
    ELSE LET mid == (lo + hi + 1) \div 2
         IN  IF mid * mid <= n THEN SqrtSearch(n, mid, hi)
                               ELSE SqrtSearch(n, lo, mid - 1)

\* math.sqrt(dx**2 + dy**2), rounded down to a hundredth
Distance(dx, dy) == SqrtSearch(dx * dx + dy * dy, 0, 46340)

\* largest k in lo..hi with tan(k - 1/2 degrees) <= a / b (none: lo)
RECURSIVE AtanSearch(_, _, _, _)
AtanSearch(a, b, lo, hi) ==
    IF lo >= hi THEN lo
    ELSE LET k == (lo + hi + 1) \div 2
         IN  IF (Sin(k) + Sin(k - 1)) * b <= (Cos(k) + Cos(k - 1)) * a
             THEN AtanSearch(a, b, k, hi)
             ELSE AtanSearch(a, b, lo, k - 1)

\* math.degrees(math.atan2(a, b)) for a >= 0, b >= 0, to the nearest degree
AtanDeg(a, b) == IF a = 0 /\ b = 0 THEN 0 ELSE AtanSearch(a, b, 0, 90)

\* math.degrees(math.atan2(dx, dy)): the bearing of (dx, dy), clockwise
\* from +Y, in -180..180
Atan2Deg(dx, dy) ==
    IF dx >= 0 /\ dy >= 0 THEN AtanDeg(dx, dy)
    ELSE IF dx >= 0 THEN 180 - AtanDeg(dx, 0 - dy)
    ELSE IF dy >= 0 THEN 0 - AtanDeg(0 - dx, dy)
    ELSE AtanDeg(0 - dx, 0 - dy) - 180


-----------------------------------------------------------------------------
(* src/python-lib/obocar/vehicle.py *)

SensorRange == 2000        \* self.sensor_range = 20.0
CollisionDistance == 100   \* collision_distance = 1.0
CollisionPenalty == 1000   \* battery_level - 10
TurnCost == 50             \* battery_level - 0.5
FullBattery == 10000       \* battery_level = 100.0
ConeHalfWidth == 30        \* angle_diff <= 30
NearbyRadius == 1000       \* radius = 10.0
MinReading == 10           \* max(0.1, ...)

\* the vehicle's fields as one value
Car == [position |-> position, angle |-> angle, battery_level |-> battery_level,
        total_distance |-> total_distance, obstacles |-> obstacles,
        event_log |-> event_log]

\* the three obstacle patterns of _generate_random_obstacles
WallPattern == [k \in 1..10 |-> <<10 * Scale, 2 * (k - 1) * Scale>>]

CirclePattern ==
    [k \in 1..8 |-> <<RoundDiv(15 * Scale * Cos(45 * (k - 1)), SinScale),
                      RoundDiv(15 * Scale * Sin(45 * (k - 1)), SinScale)>>]

\* draws of [(random.uniform(-30, 30), random.uniform(-30, 30)) for _ in range(8)]
ScatteredSamples ==
    { << <<0, 500>>, <<5, 12>>, <<-1200, 700>>, <<2500, -2999>>,
         <<30, 40>>, <<1710, 1710>>, <<-3000, 0>>, <<350, 310>> >> }

\* the values random.choice(obstacle_patterns) can return
generate_random_obstacles == {WallPattern, CirclePattern} \cup ScatteredSamples

\* the description string of an event: command, direction, number
EventText(cmd, dir, num) == [cmd |-> cmd, dir |-> dir, num |-> num]

\* _log_event storing self.position itself instead of tuple(self.position)
log_event_by_reference(c, text, t) ==
    [c EXCEPT !.event_log = Append(@,
        [timestamp |-> t, event |-> text, position |-> c.position,
         shared |-> TRUE, angle |-> c.angle, battery |-> c.battery_level])]

\* _log_event at time t; the event holds tuple(self.position), an object of
\* its own (shared is FALSE), not the list self.position
log_event(c, text, t) ==
    [c EXCEPT !.event_log = Append(@,
        [timestamp |-> t, event |-> text, position |-> c.position,
         shared |-> FALSE, angle |-> c.angle, battery |-> c.battery_level])]

\* self.position = [x, y]: a new list; whoever holds the old one keeps its
\* values
assign_position(c, x, y) ==
    [c EXCEPT !.position = <<x, y>>,
              !.event_log = [i \in DOMAIN @ |-> [@[i] EXCEPT !.shared = FALSE]]]

\* self.position[0] = x; self.position[1] = y: the list changes in place,
\* for whoever holds it
write_position(c, x, y) ==
    [c EXCEPT !.position = <<x, y>>,
              !.event_log = [i \in DOMAIN @ |->
                  IF @[i].shared THEN [@[i] EXCEPT !.position = <<x, y>>] ELSE @[i]]]

\* index of the first obstacle closer than collision_distance, 0 if none
RECURSIVE FirstHit(_, _)
FirstHit(c, i) ==
    IF i > Len(c.obstacles) THEN 0
    ELSE IF Distance(c.obstacles[i][1] - c.position[1],
                     c.obstacles[i][2] - c.position[2]) < CollisionDistance
         THEN i
         ELSE FirstHit(c, i + 1)

\* _check_collisions without the max(0, ...) around the penalty
check_collisions_unfloored(c) ==
    IF FirstHit(c, 1) # 0
    THEN [car |-> [c EXCEPT !.battery_level = @ - CollisionPenalty],
          ret |-> TRUE]
    ELSE [car |-> c, ret |-> FALSE]

\* _check_collisions charging the penalty for every obstacle in range
check_collisions_each_obstacle(c) ==
    LET hits == {i \in 1..Len(c.obstacles) :
                    Distance(c.obstacles[i][1] - c.position[1],
                             c.obstacles[i][2] - c.position[2]) < CollisionDistance}
    IN  IF hits # {}
        THEN [car |-> [c EXCEPT !.battery_level =
                                   Max(0, @ - CollisionPenalty * Cardinality(hits))],
              ret |-> TRUE]
        ELSE [car |-> c, ret |-> FALSE]

\* _check_collisions: the vehicle after the call and the returned boolean
check_collisions(c) ==
    IF FirstHit(c, 1) # 0
    THEN [car |-> [c EXCEPT !.battery_level = Max(0, @ - CollisionPenalty)],
          ret |-> TRUE]
    ELSE [car |-> c, ret |-> FALSE]

\* forward_move draining the battery by distance instead of abs(distance)
forward_move_signed_drain(c, distance, t) ==
    LET logged == log_event(c, EventText("forward", "", distance), t)
        new_x == c.position[1] + RoundDiv(distance * Sin(c.angle), SinScale)
        new_y == c.position[2] + RoundDiv(distance * Cos(c.angle), SinScale)
    IN  [assign_position(logged, new_x, new_y) EXCEPT
                       !.total_distance = @ + Abs(distance),
                       !.battery_level = Max(0, @ - distance)]

\* forward_move adding distance instead of abs(distance) to total_distance
forward_move_signed_distance(c, distance, t) ==
    LET logged == log_event(c, EventText("forward", "", distance), t)
        new_x == c.position[1] + RoundDiv(distance * Sin(c.angle), SinScale)
        new_y == c.position[2] + RoundDiv(distance * Cos(c.angle), SinScale)
    IN  [assign_position(logged, new_x, new_y) EXCEPT
                       !.total_distance = @ + distance,
                       !.battery_level = Max(0, @ - Abs(distance))]

\* forward_move with sin and cos exchanged
forward_move_swapped_axes(c, distance, t) ==
    LET logged == log_event(c, EventText("forward", "", distance), t)
        new_x == c.position[1] + RoundDiv(distance * Cos(c.angle), SinScale)
        new_y == c.position[2] + RoundDiv(distance * Sin(c.angle), SinScale)
    IN  [assign_position(logged, new_x, new_y) EXCEPT
                       !.total_distance = @ + Abs(distance),
                       !.battery_level = Max(0, @ - Abs(distance))]

\* forward_move standing still when the battery does not cover the distance
forward_move_needs_battery(c, distance, t) ==
    LET logged == log_event(c, EventText("forward", "", distance), t)
        new_x == c.position[1] + RoundDiv(distance * Sin(c.angle), SinScale)
        new_y == c.position[2] + RoundDiv(distance * Cos(c.angle), SinScale)
    IN  IF c.battery_level < Abs(distance) \/ c.battery_level = 0 THEN logged
        ELSE [assign_position(logged, new_x, new_y) EXCEPT
                       !.total_distance = @ + Abs(distance),
                       !.battery_level = Max(0, @ - Abs(distance))]

\* forward up to the call of _check_collisions
forward_move(c, distance, t) ==
    LET logged == log_event(c, EventText("forward", "", distance), t)
        new_x == c.position[1] + RoundDiv(distance * Sin(c.angle), SinScale)
        new_y == c.position[2] + RoundDiv(distance * Cos(c.angle), SinScale)
    IN  [assign_position(logged, new_x, new_y) EXCEPT
                       !.total_distance = @ + Abs(distance),
                       !.battery_level = Max(0, @ - Abs(distance))]

\* forward skipping _check_collisions when the vehicle did not move
forward_unchecked_at_rest(c, distance, t) ==
    IF distance = 0 THEN [car |-> forward_move(c, distance, t), ret |-> FALSE]
    ELSE check_collisions(forward_move(c, distance, t))

forward(c, distance, t) == check_collisions(forward_move(c, distance, t))

\* backward calling forward(distance)
backward_same_sign(c, distance, t) == forward(c, distance, t)

backward(c, distance, t) == forward(c, 0 - distance, t)

\* left adding the degrees
left_adds(c, degrees, t) ==
    LET logged == log_event(c, EventText("left", "", degrees), t)
    IN  [logged EXCEPT !.angle = (@ + degrees) % 360,
                       !.battery_level = Max(0, @ - TurnCost)]

\* left running _check_collisions after the turn, as forward does
left_with_collision_check(c, degrees, t) ==
    LET logged == log_event(c, EventText("left", "", degrees), t)
    IN  check_collisions([logged EXCEPT !.angle = (@ - degrees) % 360,
                                        !.battery_level = Max(0, @ - TurnCost)]).car

left(c, degrees, t) ==
    LET logged == log_event(c, EventText("left", "", degrees), t)
    IN  [logged EXCEPT !.angle = (@ - degrees) % 360,
                       !.battery_level = Max(0, @ - TurnCost)]

\* right without the % 360
right_unnormalised(c, degrees, t) ==
    LET logged == log_event(c, EventText("right", "", degrees), t)
    IN  [logged EXCEPT !.angle = @ + degrees,
                       !.battery_level = Max(0, @ - TurnCost)]

right(c, degrees, t) ==
    LET logged == log_event(c, EventText("right", "", degrees), t)
    IN  [logged EXCEPT !.angle = (@ + degrees) % 360,
                       !.battery_level = Max(0, @ - TurnCost)]

\* sensor_angles
Directions == {"front", "right", "back", "left"}

sensor_angles(direction) ==
    CASE direction = "front" -> 0
      [] direction = "right" -> 90
      [] direction = "back" -> 180
      [] direction = "left" -> 270

\* angle_diff without the wrap into -180..180
angle_diff_unwrapped(angle_to_obstacle, sensor_angle) ==
    Abs(angle_to_obstacle - sensor_angle)

\* angle_diff = abs((angle_to_obstacle - sensor_angle + 180) % 360 - 180)
angle_diff(angle_to_obstacle, sensor_angle) ==
    Abs(((angle_to_obstacle - sensor_angle + 180) % 360) - 180)

\* the loop of sensor over self.obstacles, from obstacle i on
RECURSIVE min_distance(_, _, _, _)
min_distance(c, sensor_angle, i, m) ==
    IF i > Len(c.obstacles) THEN m
    ELSE LET dx == c.obstacles[i][1] - c.position[1]
             dy == c.obstacles[i][2] - c.position[2]
             distance == Distance(dx, dy)
         IN  IF angle_diff(Atan2Deg(dx, dy), sensor_angle) <= ConeHalfWidth
                /\ distance < m
             THEN min_distance(c, sensor_angle, i + 1, distance)
             ELSE min_distance(c, sensor_angle, i + 1, m)

\* sensor_local starting its search above the sensor range
sensor_local_uncapped(c, direction, noise, t) ==
    LET sensor_angle == (c.angle + sensor_angles(direction)) % 360
        result == Max(MinReading,
                      min_distance(c, sensor_angle, 1, 100 * SensorRange) + noise)
    IN  [car |-> log_event(c, EventText("sensor", direction, Round1(result)), t),
         ret |-> result, raised |-> "none"]

\* sensor_local without its _log_event
sensor_local_silent(c, direction, noise, t) ==
    LET sensor_angle == (c.angle + sensor_angles(direction)) % 360
        result == Max(MinReading,
                      min_distance(c, sensor_angle, 1, SensorRange) + noise)
    IN  [car |-> c, ret |-> result, raised |-> "none"]

\* the local ray cast of sensor for a valid direction, with the drawn noise
sensor_local(c, direction, noise, t) ==
    LET sensor_angle == (c.angle + sensor_angles(direction)) % 360
        result == Max(MinReading,
                      min_distance(c, sensor_angle, 1, SensorRange) + noise)
    IN  [car |-> log_event(c, EventText("sensor", direction, Round1(result)), t),
         ret |-> result, raised |-> "none"]

\* sensor: ValueError for an unknown direction, before anything else
sensor(c, direction, noise, t) ==
    IF direction \notin Directions
    THEN [car |-> c, ret |-> 0, raised |-> "ValueError"]
    ELSE sensor_local(c, direction, noise, t)

\* battery(), distance(), get_position(), get_heading()
battery(c) == Round1(c.battery_level)

distance_travelled(c) == Round1(c.total_distance)

get_position(c) == <<Round1(c.position[1]), Round1(c.position[2])>>

get_heading(c) == c.angle

\* _count_nearby_obstacles with distance < radius
count_nearby_obstacles_strict(c, radius) ==
    Cardinality({i \in 1..Len(c.obstacles) :
        (c.obstacles[i][1] - c.position[1]) * (c.obstacles[i][1] - c.position[1])
      + (c.obstacles[i][2] - c.position[2]) * (c.obstacles[i][2] - c.position[2])
            < radius * radius})

\* _count_nearby_obstacles(radius): sqrt(n) <= radius iff n <= radius^2
count_nearby_obstacles(c, radius) ==
    Cardinality({i \in 1..Len(c.obstacles) :
        (c.obstacles[i][1] - c.position[1]) * (c.obstacles[i][1] - c.position[1])
      + (c.obstacles[i][2] - c.position[2]) * (c.obstacles[i][2] - c.position[2])
            <= radius * radius})

status(c) ==
    [position |-> get_position(c), heading |-> get_heading(c),
     battery |-> battery(c), distance |-> distance_travelled(c),
     speed |-> 0, obstacles_nearby |-> count_nearby_obstacles(c, NearbyRadius)]

add_obstacle(c, x, y) == [c EXCEPT !.obstacles = Append(@, <<x, y>>)]

\* get_obstacles returning self.obstacles itself
get_obstacles_no_copy(c) == [items |-> c.obstacles, is_own |-> TRUE]

\* get_obstacles: self.obstacles.copy(), a new list of the same (immutable)
\* tuples; is_own tells whether the returned list is self.obstacles itself
get_obstacles(c) == [items |-> c.obstacles, is_own |-> FALSE]

\* get_event_log: self._event_log.copy(), a new list whose entries are the
\* dicts of the log themselves; entry k of the result is the k-th dict
get_event_log(c) == [i \in 1..Len(c.event_log) |-> i]

wait(c, seconds, t) == log_event(c, EventText("wait", "", seconds), t)

\* the fields __init__ sets, with the chosen obstacle pattern
NewCar(pattern) ==
    [position |-> <<0, 0>>, angle |-> 0, battery_level |-> FullBattery,
     total_distance |-> 0, obstacles |-> pattern, event_log |-> <<>>]

\* reset that leaves total_distance as it is
reset_keeps_distance(c, pattern, t) ==
    log_event([NewCar(pattern) EXCEPT !.total_distance = c.total_distance],
              EventText("reset", "", 0), t)

\* reset that does not empty the log
reset_keeps_log(c, pattern, t) ==
    log_event([NewCar(pattern) EXCEPT !.event_log = c.event_log],
              EventText("reset", "", 0), t)

\* reset that keeps self.obstacles
reset_keeps_obstacles(c, pattern, t) ==
    log_event([NewCar(pattern) EXCEPT !.obstacles = c.obstacles],
              EventText("reset", "", 0), t)

\* reset: the initial fields, a new pattern, an emptied log, then _log_event
reset(c, pattern, t) == log_event(NewCar(pattern), EventText("reset", "", 0), t)

-----------------------------------------------------------------------------
(* src/public/python/obocar.py: the same vehicle next to the renderer       *)
(* window.oboCarAPI.  The renderer is outside the program: caps are the     *)
(* methods it has, broken the ones that raise, js the answers it gives.     *)

Methods == {"reset", "move", "rotate", "getPosition", "getRotation", "getBattery",
            "getDistanceTraveled", "getSensor", "updateState", "getStatus"}

\* hasattr(window.oboCarAPI, m)
hasattr(m) == m \in caps

\* calling window.oboCarAPI.m(...) raises: the attribute is missing or the
\* renderer fails
Raises(m) == m \notin caps \/ m \in broken

\* the call window.oboCarAPI.m(args) reaches the renderer when m exists
Called(cs, m, args, dir) ==
    IF m \in caps THEN Append(cs, [method |-> m, args |-> args, dir |-> dir]) ELSE cs

\* "if rot:", "if bat:", "if dist:": None and 0 are false
Truthy(value, null) == ~null /\ value # 0

\* _sync_with_3d_scene, lines 150-152
sync_dist(c, cs) ==
    IF ~hasattr("getDistanceTraveled") THEN [car |-> c, calls |-> cs, exc |-> FALSE]
    ELSE LET cs1 == Called(cs, "getDistanceTraveled", <<>>, "")
         IN  IF Raises("getDistanceTraveled") THEN [car |-> c, calls |-> cs1, exc |-> TRUE]
             ELSE [car |-> IF Truthy(js.dist, js.dist_null)
                           THEN [c EXCEPT !.total_distance = js.dist] ELSE c,
                   calls |-> cs1, exc |-> FALSE]

\* _sync_with_3d_scene, lines 145-152
sync_bat(c, cs) ==
    IF ~hasattr("getBattery") THEN sync_dist(c, cs)
    ELSE LET cs1 == Called(cs, "getBattery", <<>>, "")
         IN  IF Raises("getBattery") THEN [car |-> c, calls |-> cs1, exc |-> TRUE]
             ELSE sync_dist(IF Truthy(js.bat, js.bat_null)
                            THEN [c EXCEPT !.battery_level = js.bat] ELSE c, cs1)

\* _sync_with_3d_scene, lines 140-152
sync_rot(c, cs) ==
    IF ~hasattr("getRotation") THEN sync_bat(c, cs)
    ELSE LET cs1 == Called(cs, "getRotation", <<>>, "")
         IN  IF Raises("getRotation") THEN [car |-> c, calls |-> cs1, exc |-> TRUE]
             ELSE sync_bat(IF Truthy(js.rot, js.rot_null)
                           THEN [c EXCEPT !.angle = js.rot] ELSE c, cs1)

\* _sync_with_3d_scene, lines 133-152: "if pos:" holds for every non-null array
sync_pos(c, cs) ==
    LET cs1 == Called(cs, "getPosition", <<>>, "")
    IN  IF Raises("getPosition") THEN [car |-> c, calls |-> cs1, exc |-> TRUE]
        ELSE sync_rot(IF ~js.pos_null
                      THEN write_position(c, js.pos[1], js.pos[3]) ELSE c, cs1)

\* _sync_with_3d_scene, lines 93-121: the diagnostic queries in their own try
sync_prev(cs) ==
    LET cs1 == Called(cs, "getPosition", <<>>, "")
    IN  IF Raises("getPosition") THEN cs1 ELSE Called(cs1, "getRotation", <<>>, "")

\* the body of the outer try of _sync_with_3d_scene; exc: an exception left it
sync_body(c, cs) ==
    LET cs1 == sync_prev(cs)
    IN  IF hasattr("updateState")
        THEN LET cs2 == Called(cs1, "updateState",
                               <<c.position[1], c.position[2], c.angle>>, "")
             IN  IF Raises("updateState") THEN [car |-> c, calls |-> cs2, exc |-> TRUE]
                 ELSE sync_pos(c, cs2)
        ELSE sync_pos(c, cs1)

\* _sync_with_3d_scene without its outer try
sync_unguarded(c, cs) ==
    IF ~in_browser THEN [car |-> c, calls |-> cs, raised |-> "none"]
    ELSE LET b == sync_body(c, cs)
         IN  [car |-> b.car, calls |-> b.calls,
              raised |-> IF b.exc THEN "Exception" ELSE "none"]

\* _sync_with_3d_scene: except Exception swallows whatever the body raised
sync_with_3d_scene(c, cs) ==
    IF ~in_browser THEN [car |-> c, calls |-> cs, raised |-> "none"]
    ELSE LET b == sync_body(c, cs)
         IN  [car |-> b.car, calls |-> b.calls, raised |-> "none"]

\* the result of an operation: fields, renderer calls, returned numbers,
\* exception, collision
Result(c, cs, ret, raised, hit) ==
    [car |-> c, calls |-> cs, ret |-> ret, raised |-> raised, hit |-> hit]

\* forward: move(distance) in a try, the local arithmetic, then the sync
forward_js(c, distance, t, cs) ==
    LET cs1 == IF in_browser /\ hasattr("move")
               THEN Called(cs, "move", <<distance>>, "") ELSE cs
        moved == forward(c, distance, t)
        s == sync_with_3d_scene(moved.car, cs1)
    IN  Result(s.car, s.calls, <<>>, s.raised, moved.ret)

\* backward: move(-distance) and a sync in a try, then forward(-distance)
backward_js(c, distance, t, cs) ==
    IF ~in_browser THEN forward_js(c, 0 - distance, t, cs)
    ELSE LET cs1 == Called(cs, "move", <<0 - distance>>, "")
         IN  IF Raises("move") THEN forward_js(c, 0 - distance, t, cs1)
             ELSE LET s == sync_with_3d_scene(c, cs1)
                  IN  forward_js(s.car, 0 - distance, t, s.calls)

\* left/right: rotate(-/+degrees) in a try, the local arithmetic, then the sync
left_js(c, degrees, t, cs) ==
    LET cs1 == IF in_browser THEN Called(cs, "rotate", <<0 - degrees>>, "") ELSE cs
        s == sync_with_3d_scene(left(c, degrees, t), cs1)
    IN  Result(s.car, s.calls, <<>>, s.raised, FALSE)

right_js(c, degrees, t, cs) ==
    LET cs1 == IF in_browser THEN Called(cs, "rotate", <<degrees>>, "") ELSE cs
        s == sync_with_3d_scene(right(c, degrees, t), cs1)
    IN  Result(s.car, s.calls, <<>>, s.raised, FALSE)

\* sensor checking the direction after the sync with the renderer
sensor_js_late_check(c, direction, noise, t, cs) ==
    LET s == sync_with_3d_scene(c, cs)
    IN  IF direction \notin Directions
        THEN Result(s.car, s.calls, <<>>, "ValueError", FALSE)
        ELSE LET cs1 == Called(s.calls, "getSensor", <<>>, direction)
             IN  IF in_browser /\ ~Raises("getSensor") /\ ~js.reading_null
                 THEN Result(log_event(s.car,
                                EventText("sensor", direction, Round1(js.reading)), t),
                             cs1, <<js.reading>>, "none", FALSE)
                 ELSE LET r == sensor_local(s.car, direction, noise, t)
                      IN  Result(r.car, cs1, <<r.ret>>, r.raised, FALSE)

\* sensor returning the renderer's answer also when it is None
sensor_js_returns_null(c, direction, noise, t, cs) ==
    IF direction \notin Directions THEN Result(c, cs, <<>>, "ValueError", FALSE)
    ELSE IF ~in_browser
    THEN LET r == sensor_local(c, direction, noise, t)
         IN  Result(r.car, cs, <<r.ret>>, r.raised, FALSE)
    ELSE LET s == sync_with_3d_scene(c, cs)
             cs1 == Called(s.calls, "getSensor", <<>>, direction)
         IN  IF ~Raises("getSensor")
             THEN Result(log_event(s.car,
                            EventText("sensor", direction, Round1(js.reading)), t),
                         cs1, <<js.reading>>, "none", FALSE)
             ELSE LET r == sensor_local(s.car, direction, noise, t)
                  IN  Result(r.car, cs1, <<r.ret>>, r.raised, FALSE)

\* sensor: ValueError first; then the renderer's reading when getSensor
\* answers a non-null value, else the local ray cast
sensor_js(c, direction, noise, t, cs) ==
    IF direction \notin Directions THEN Result(c, cs, <<>>, "ValueError", FALSE)
    ELSE IF ~in_browser
    THEN LET r == sensor_local(c, direction, noise, t)
         IN  Result(r.car, cs, <<r.ret>>, r.raised, FALSE)
    ELSE LET s == sync_with_3d_scene(c, cs)
             cs1 == Called(s.calls, "getSensor", <<>>, direction)
         IN  IF ~Raises("getSensor") /\ ~js.reading_null
             THEN Result(log_event(s.car,
                            EventText("sensor", direction, Round1(js.reading)), t),
                         cs1, <<js.reading>>, "none", FALSE)
             ELSE LET r == sensor_local(s.car, direction, noise, t)
                  IN  Result(r.car, cs1, <<r.ret>>, r.raised, FALSE)

battery_js(c, cs) ==
    LET s == sync_with_3d_scene(c, cs)
    IN  Result(s.car, s.calls, <<battery(s.car)>>, s.raised, FALSE)

distance_js(c, cs) ==
    LET s == sync_with_3d_scene(c, cs)
    IN  Result(s.car, s.calls, <<distance_travelled(s.car)>>, s.raised, FALSE)

\* get_position: the renderer's x and z when getPosition answers, else local
get_position_js(c, cs) ==
    IF in_browser /\ hasattr("getPosition")
    THEN LET cs1 == Called(cs, "getPosition", <<>>, "")
         IN  IF ~Raises("getPosition") /\ ~js.pos_null
             THEN Result(c, cs1, <<Round1(js.pos[1]), Round1(js.pos[3])>>, "none", FALSE)
             ELSE Result(c, cs1, get_position(c), "none", FALSE)
    ELSE Result(c, cs, get_position(c), "none", FALSE)

\* the fallback of status: get_position, get_heading, battery, distance
status_local(c, cs) ==
    LET p == get_position_js(c, cs)
        b == battery_js(c, p.calls)
        d == distance_js(b.car, b.calls)
    IN  Result(d.car, d.calls,
               <<p.ret[1], p.ret[2], get_heading(c), b.ret[1], d.ret[1], 0,
                 count_nearby_obstacles(d.car, NearbyRadius)>>,
               IF b.raised # "none" THEN b.raised ELSE d.raised, FALSE)

\* status: sync and getStatus in a try; a null status, a null position in
\* it or a failure lead to the fallback
status_js(c, cs) ==
    IF ~in_browser THEN status_local(c, cs)
    ELSE LET s == sync_with_3d_scene(c, cs)
             cs1 == Called(s.calls, "getStatus", <<>>, "")
         IN  IF ~Raises("getStatus") /\ ~js.status_null /\ ~js.pos_null
             THEN Result(s.car, cs1,
                         <<js.pos[1], js.pos[3], js.rot, js.bat, js.dist, 0,
                           count_nearby_obstacles(s.car, NearbyRadius)>>,
                         "none", FALSE)
             ELSE status_local(s.car, cs1)

\* reset: the renderer's reset() in a try, then the local reset
reset_js(c, pattern, t, cs) ==
    LET cs1 == IF in_browser THEN Called(cs, "reset", <<>>, "") ELSE cs
    IN  Result(reset(c, pattern, t), cs1, <<>>, "none", FALSE)

-----------------------------------------------------------------------------
(* Inputs *)

Distances == {-6000, 0, 300}          \* forward/backward arguments (-60, 0, 3)
Degrees == {-90, 90, 405}             \* left/right arguments
Noises == {-20, 20}                   \* random.uniform(-0.2, 0.2)
BadDirections == {"up"}               \* sensor arguments that are no direction
AddPoints == {<<0, 300>>, <<0, 10>>}  \* add_obstacle arguments
WaitSeconds == {1}                    \* wait arguments

NoRenderer == [pos |-> <<0, 0, 0>>, pos_null |-> TRUE, rot |-> 0, rot_null |-> TRUE,
               bat |-> 0, bat_null |-> TRUE, dist |-> 0, dist_null |-> TRUE,
               reading |-> 0, reading_null |-> TRUE, status_null |-> TRUE]

\* answers of a renderer: a plausible state, all zeros, all null, out of range
JsNormal == [pos |-> <<120, 7, 340>>, pos_null |-> FALSE, rot |-> 90, rot_null |-> FALSE,
             bat |-> 5000, bat_null |-> FALSE, dist |-> 300, dist_null |-> FALSE,
             reading |-> 250, reading_null |-> FALSE, status_null |-> FALSE]

JsZero == [pos |-> <<0, 0, 0>>, pos_null |-> FALSE, rot |-> 0, rot_null |-> FALSE,
           bat |-> 0, bat_null |-> FALSE, dist |-> 0, dist_null |-> FALSE,
           reading |-> 0, reading_null |-> FALSE, status_null |-> FALSE]

JsOdd == [pos |-> <<-50, 0, 20>>, pos_null |-> FALSE, rot |-> 450, rot_null |-> FALSE,
          bat |-> 9950, bat_null |-> FALSE, dist |-> 100, dist_null |-> FALSE,
          reading |-> -100, reading_null |-> FALSE, status_null |-> FALSE]

\* the renderers a vehicle is created next to: methods, failures, answers
Renderers ==
    {[caps |-> Methods, broken |-> {}, js |-> j] : j \in {JsNormal, JsZero, JsOdd, NoRenderer}}
    \cup {[caps |-> Methods, broken |-> {m}, js |-> JsNormal] : m \in Methods}
    \cup {[caps |-> Methods \ {m}, broken |-> {}, js |-> JsNormal] :
              m \in {"updateState", "getPosition", "getRotation"}}
    \cup {[caps |-> Methods \ {"updateState"}, broken |-> {}, js |-> JsZero],
          [caps |-> Methods \ {"updateState"}, broken |-> {"move", "rotate"},
           js |-> JsNormal],
          [caps |-> {}, broken |-> {}, js |-> NoRenderer]}

\* no run_loop was called yet
NoLoop ==
    [pc |-> "idle", kind |-> "", func |-> [until |-> 0, then |-> "none"],
     times |-> 0, left |-> 0, counter |-> 0, max_iterations |-> 0, iteration |-> 0,
     remaining_iterations |-> 0, iteration_count |-> 0, invoked |-> 0,
     scheduled |-> 0, ret |-> ""]

\* before get_event_log() and get_obstacles() the caller holds no list
NoViews == [events |-> <<>>, has_events |-> FALSE, obstacles |-> <<>>,
            obstacles_is_own |-> FALSE, has_obstacles |-> FALSE]

\* the record of an operation: name, numeric argument, direction argument,
\* returned numbers, raised exception
Call(op, num, dir, ret, raised) ==
    [op |-> op, num |-> num, dir |-> dir, ret |-> ret, raised |-> raised]

\* the vehicle's fields become those of c
SetCar(c) ==
    /\ position' = c.position
    /\ angle' = c.angle
    /\ battery_level' = c.battery_level
    /\ total_distance' = c.total_distance
    /\ obstacles' = c.obstacles
    /\ event_log' = c.event_log

\* the lists the caller holds after an operation that left the vehicle as
\* c: reset binds self._event_log and self.obstacles to new lists, so the
\* dicts the caller holds are no longer those of the log (0) and its obstacle
\* list is not the vehicle's; a list that is the vehicle's shows its obstacles
Kept(c, call) ==
    IF call.op = "reset"
    THEN [views EXCEPT !.events = [i \in DOMAIN @ |-> 0], !.obstacles_is_own = FALSE]
    ELSE [views EXCEPT !.obstacles = IF views.obstacles_is_own THEN c.obstacles ELSE @]

\* the vehicle after an operation or a statement of the caller: new fields
\* c, call record, collision
Step(c, call, hit) ==
    /\ SetCar(c)
    /\ last' = call
    /\ pre' = Car
    /\ collided' = IF call.op = "reset" THEN 0
                   ELSE IF hit THEN collided + 1 ELSE collided
    /\ clock' = clock + 1
    /\ UNCHANGED <<in_browser, caps, broken, js, calls, loop>>

\* an operation of vehicle.py returns: new fields c, call record, collision
Return(c, call, hit) ==
    /\ Step(c, call, hit)
    /\ views' = Kept(c, call)

InRange(c) == Abs(c.position[1]) <= MaxCoord /\ Abs(c.position[2]) <= MaxCoord

Forward(d) ==
    /\ ~in_browser
    /\ LET r == forward(Car, d, clock)
       IN  /\ InRange(r.car)
           /\ Return(r.car, Call("forward", d, "", <<>>, "none"), r.ret)

Backward(d) ==
    /\ ~in_browser
    /\ LET r == backward(Car, d, clock)
       IN  /\ InRange(r.car)
           /\ Return(r.car, Call("backward", d, "", <<>>, "none"), r.ret)

Left(g) ==
    /\ ~in_browser
    /\ Return(left(Car, g, clock), Call("left", g, "", <<>>, "none"), FALSE)

Right(g) ==
    /\ ~in_browser
    /\ Return(right(Car, g, clock), Call("right", g, "", <<>>, "none"), FALSE)

Sensor(direction, noise) ==
    /\ ~in_browser
    /\ LET r == sensor(Car, direction, noise, clock)
       IN  Return(r.car, Call("sensor", noise, direction, <<r.ret>>, r.raised), FALSE)

\* sensor with an unknown direction: no noise is drawn
SensorInvalid(direction) ==
    /\ ~in_browser
    /\ LET r == sensor(Car, direction, 0, clock)
       IN  Return(r.car, Call("sensor", 0, direction, <<>>, r.raised), FALSE)

Battery ==
    /\ ~in_browser
    /\ Return(Car, Call("battery", 0, "", <<battery(Car)>>, "none"), FALSE)

DistanceTravelled ==
    /\ ~in_browser
    /\ Return(Car, Call("distance", 0, "", <<distance_travelled(Car)>>, "none"), FALSE)

GetPosition ==
    /\ ~in_browser
    /\ Return(Car, Call("get_position", 0, "", get_position(Car), "none"), FALSE)

GetHeading ==
    /\ ~in_browser
    /\ Return(Car, Call("get_heading", 0, "", <<get_heading(Car)>>, "none"), FALSE)

Status ==
    /\ ~in_browser
    /\ LET st == status(Car)
       IN  Return(Car, Call("status", 0, "",
                    <<st.position[1], st.position[2], st.heading, st.battery,
                      st.distance, st.speed, st.obstacles_nearby>>, "none"), FALSE)

Wait(seconds) ==
    /\ ~in_browser
    /\ Return(wait(Car, seconds, clock), Call("wait", seconds, "", <<>>, "none"), FALSE)

AddObstacle(p) ==
    /\ ~in_browser
    /\ Return(add_obstacle(Car, p[1], p[2]), Call("add_obstacle", 0, "", p, "none"), FALSE)

Reset(pattern) ==
    /\ ~in_browser
    /\ Return(reset(Car, pattern, clock), Call("reset", 0, "", <<>>, "none"), FALSE)

\* events = car.get_event_log()
GetEventLog ==
    /\ ~in_browser
    /\ Step(Car, Call("get_event_log", 0, "", <<>>, "none"), FALSE)
    /\ views' = [views EXCEPT !.events = get_event_log(Car), !.has_events = TRUE]

\* obstacles = car.get_obstacles()
GetObstacles ==
    /\ ~in_browser
    /\ Step(Car, Call("get_obstacles", 0, "", <<>>, "none"), FALSE)
    /\ views' = [views EXCEPT !.obstacles = get_obstacles(Car).items,
                               !.obstacles_is_own = get_obstacles(Car).is_own,
                               !.has_obstacles = TRUE]

\* the caller's events.append({...}): an entry of the caller's own
CallerAppendsEvent ==
    /\ ~in_browser
    /\ views.has_events
    /\ Len(views.events) < MaxView
    /\ Step(Car, Call("events.append", 0, "", <<>>, "none"), FALSE)
    /\ views' = [views EXCEPT !.events = Append(@, 0)]

\* the caller's del events[0]
CallerRemovesEvent ==
    /\ ~in_browser
    /\ views.events # <<>>
    /\ Step(Car, Call("del events[0]", 0, "", <<>>, "none"), FALSE)
    /\ views' = [views EXCEPT !.events = Tail(@)]

\* the caller's events[i - 1]['battery'] = v: the dict is written; it is an
\* event of the log when entry i of the caller's list is one of its dicts
CallerSetsBattery(i, v) ==
    /\ ~in_browser
    /\ i \in DOMAIN views.events
    /\ Step(IF views.events[i] = 0 THEN Car
            ELSE [Car EXCEPT !.event_log[views.events[i]].battery = v],
            Call("events[i]['battery'] = v", v, "", <<i>>, "none"), FALSE)
    /\ UNCHANGED views

\* the caller's obstacles.append((x, y))
CallerAppendsObstacle(p) ==
    /\ ~in_browser
    /\ views.has_obstacles
    /\ Len(views.obstacles) < MaxView
    /\ Step(IF views.obstacles_is_own THEN add_obstacle(Car, p[1], p[2]) ELSE Car,
            Call("obstacles.append", 0, "", p, "none"), FALSE)
    /\ views' = [views EXCEPT !.obstacles = Append(@, p)]

\* the caller's obstacles.clear()
CallerClearsObstacles ==
    /\ ~in_browser
    /\ views.has_obstacles
    /\ Step(IF views.obstacles_is_own THEN [Car EXCEPT !.obstacles = <<>>] ELSE Car,
            Call("obstacles.clear", 0, "", <<>>, "none"), FALSE)
    /\ views' = [views EXCEPT !.obstacles = <<>>]

\* OboChar(): __init__ of vehicle.py
InitVehicle ==
    /\ in_browser = FALSE
    /\ \E pattern \in generate_random_obstacles :
          /\ position = NewCar(pattern).position
          /\ angle = NewCar(pattern).angle
          /\ battery_level = NewCar(pattern).battery_level
          /\ total_distance = NewCar(pattern).total_distance
          /\ obstacles = NewCar(pattern).obstacles
          /\ event_log = NewCar(pattern).event_log
          /\ pre = NewCar(pattern)
    /\ caps = {}
    /\ broken = {}
    /\ js = NoRenderer
    /\ calls = <<>>
    /\ last = Call("init", 0, "", <<>>, "none")
    /\ collided = 0
    /\ views = NoViews
    /\ clock = 0
    /\ loop = NoLoop

NextVehicle ==
    \/ \E d \in Distances : Forward(d)
    \/ \E d \in Distances : Backward(d)
    \/ \E g \in Degrees : Left(g)
    \/ \E g \in Degrees : Right(g)
    \/ \E direction \in Directions, noise \in Noises : Sensor(direction, noise)
    \/ \E direction \in BadDirections : SensorInvalid(direction)
    \/ Battery
    \/ DistanceTravelled
    \/ GetPosition
    \/ GetHeading
    \/ Status
    \/ \E seconds \in WaitSeconds : Wait(seconds)
    \/ \E p \in AddPoints : AddObstacle(p)
    \/ \E pattern \in generate_random_obstacles : Reset(pattern)

\* an operation of public/python/obocar.py returns
ReturnJs(r, call) ==
    /\ SetCar(r.car)
    /\ calls' = r.calls
    /\ last' = [call EXCEPT !.ret = r.ret, !.raised = r.raised]
    /\ pre' = Car
    /\ collided' = IF call.op = "reset" THEN 0
                   ELSE IF r.hit THEN collided + 1 ELSE collided
    /\ clock' = clock + 1
    /\ views' = Kept(r.car, call)
    /\ UNCHANGED <<in_browser, caps, broken, js, loop>>

ForwardJs(d) ==
    /\ in_browser
    /\ LET r == forward_js(Car, d, clock, <<>>)
       IN  InRange(r.car) /\ ReturnJs(r, Call("forward", d, "", <<>>, "none"))

BackwardJs(d) ==
    /\ in_browser
    /\ LET r == backward_js(Car, d, clock, <<>>)
       IN  InRange(r.car) /\ ReturnJs(r, Call("backward", d, "", <<>>, "none"))

LeftJs(g) ==
    /\ in_browser
    /\ ReturnJs(left_js(Car, g, clock, <<>>), Call("left", g, "", <<>>, "none"))

RightJs(g) ==
    /\ in_browser
    /\ ReturnJs(right_js(Car, g, clock, <<>>), Call("right", g, "", <<>>, "none"))

SensorJs(direction, noise) ==
    /\ in_browser
    /\ ReturnJs(sensor_js(Car, direction, noise, clock, <<>>),
                Call("sensor", noise, direction, <<>>, "none"))

SensorInvalidJs(direction) ==
    /\ in_browser
    /\ ReturnJs(sensor_js(Car, direction, 0, clock, <<>>),
                Call("sensor", 0, direction, <<>>, "none"))

BatteryJs ==
    /\ in_browser
    /\ ReturnJs(battery_js(Car, <<>>), Call("battery", 0, "", <<>>, "none"))

DistanceJs ==
    /\ in_browser
    /\ ReturnJs(distance_js(Car, <<>>), Call("distance", 0, "", <<>>, "none"))

GetPositionJs ==
    /\ in_browser
    /\ ReturnJs(get_position_js(Car, <<>>), Call("get_position", 0, "", <<>>, "none"))

StatusJs ==
    /\ in_browser
    /\ ReturnJs(status_js(Car, <<>>), Call("status", 0, "", <<>>, "none"))

WaitJs(seconds) ==
    /\ in_browser
    /\ ReturnJs(Result(wait(Car, seconds, clock), <<>>, <<>>, "none", FALSE),
                Call("wait", seconds, "", <<>>, "none"))

AddObstacleJs(p) ==
    /\ in_browser
    /\ ReturnJs(Result(add_obstacle(Car, p[1], p[2]), <<>>, p, "none", FALSE),
                Call("add_obstacle", 0, "", <<>>, "none"))

ResetJs(pattern) ==
    /\ in_browser
    /\ ReturnJs(reset_js(Car, pattern, clock, <<>>), Call("reset", 0, "", <<>>, "none"))

\* OboChar(): __init__ of public/python/obocar.py next to some renderer; the
\* renderer's reset() is called in a try
InitBridged ==
    /\ in_browser = TRUE
    /\ \E pattern \in generate_random_obstacles :
          /\ position = NewCar(pattern).position
          /\ angle = NewCar(pattern).angle
          /\ battery_level = NewCar(pattern).battery_level
          /\ total_distance = NewCar(pattern).total_distance
          /\ obstacles = NewCar(pattern).obstacles
          /\ event_log = NewCar(pattern).event_log
          /\ pre = NewCar(pattern)
    /\ \E r \in Renderers :
          /\ caps = r.caps
          /\ broken = r.broken
          /\ js = r.js
          /\ calls = IF "reset" \in r.caps
                     THEN <<[method |-> "reset", args |-> <<>>, dir |-> ""]>> ELSE <<>>
    /\ last = Call("init", 0, "", <<>>, "none")
    /\ collided = 0
    /\ views = NoViews
    /\ clock = 0
    /\ loop = NoLoop

NextBridged ==
    \/ \E d \in Distances : ForwardJs(d)
    \/ \E d \in Distances : BackwardJs(d)
    \/ \E g \in Degrees : LeftJs(g)
    \/ \E g \in Degrees : RightJs(g)
    \/ \E direction \in Directions, noise \in Noises : SensorJs(direction, noise)
    \/ \E direction \in BadDirections : SensorInvalidJs(direction)
    \/ BatteryJs
    \/ DistanceJs
    \/ GetPositionJs
    \/ StatusJs
    \/ \E seconds \in WaitSeconds : WaitJs(seconds)
    \/ \E p \in AddPoints : AddObstacleJs(p)
    \/ \E pattern \in generate_random_obstacles : ResetJs(pattern)

-----------------------------------------------------------------------------
(* src/public/obocar.py: class OboCar.  in_browser is IN_BROWSER, that is   *)
(* hasattr(window, "oboCarAPI"); the vehicle has no battery and its         *)
(* _check_collisions returns False.                                         *)

\* _log_event of OboCar: timestamp, event, tuple(self.position), angle
OboCar_log_event(c, text, t) ==
    [c EXCEPT !.event_log = Append(@,
        [timestamp |-> t, event |-> text, position |-> c.position,
         shared |-> FALSE, angle |-> c.angle])]

\* _calculate_forward_position
calculate_forward_position(c, distance) ==
    LET new_x == c.position[1] + RoundDiv(distance * Sin(c.angle), SinScale)
        new_y == c.position[2] + RoundDiv(distance * Cos(c.angle), SinScale)
    IN  [assign_position(c, new_x, new_y) EXCEPT !.total_distance = @ + Abs(distance)]

\* the try of forward and backward from getPosition() on: the answer is
\* subscripted, which fails for None; by_local is what the except branch does
OboCar_take_position(c, cs, counted, by_local) ==
    LET cs1 == Called(cs, "getPosition", <<>>, "")
    IN  IF Raises("getPosition") \/ js.pos_null THEN [car |-> by_local, calls |-> cs1]
        ELSE [car |-> [assign_position(c, js.pos[1], js.pos[3])
                          EXCEPT !.total_distance = @ + counted],
              calls |-> cs1]

\* OboCar.forward: the event, then the renderer's move and position, or the
\* local calculation when move is missing or anything in the try raises
OboCar_forward(c, distance, t, cs) ==
    LET logged == OboCar_log_event(c, EventText("forward", "", distance), t)
        local == calculate_forward_position(logged, distance)
    IN  IF ~in_browser \/ ~hasattr("move") THEN Result(local, cs, <<>>, "none", FALSE)
        ELSE LET cs1 == Called(cs, "move", <<distance>>, "")
             IN  IF Raises("move") THEN Result(local, cs1, <<>>, "none", FALSE)
                 ELSE LET r == OboCar_take_position(logged, cs1, Abs(distance), local)
                      IN  Result(r.car, r.calls, <<>>, "none", FALSE)

\* OboCar.backward: the renderer's backward(abs(distance)) or
\* move(-abs(distance)) and its position; forward(-distance) when not in the
\* browser or when anything in the try raises
OboCar_backward(c, distance, t, cs) ==
    IF ~in_browser THEN OboCar_forward(c, 0 - distance, t, cs)
    ELSE LET m == IF hasattr("backward") THEN "backward" ELSE "move"
             arg == IF hasattr("backward") THEN Abs(distance) ELSE 0 - Abs(distance)
             cs1 == Called(cs, m, <<arg>>, "")
         IN  IF Raises(m) THEN OboCar_forward(c, 0 - distance, t, cs1)
             ELSE LET cs2 == Called(cs1, "getPosition", <<>>, "")
                  IN  IF Raises("getPosition") \/ js.pos_null
                      THEN OboCar_forward(c, 0 - distance, t, cs2)
                      ELSE Result(assign_position(c, js.pos[1], js.pos[3]),
                                  cs2, <<>>, "none", FALSE)

\* OboCar.left and OboCar.right: the event; in the browser rotate(-/+degrees)
\* in a try and no change of self.angle, else the local calculation
OboCar_left(c, degrees, t, cs) ==
    LET logged == OboCar_log_event(c, EventText("left", "", degrees), t)
    IN  IF in_browser
        THEN Result(logged, Called(cs, "rotate", <<0 - degrees>>, ""), <<>>, "none", FALSE)
        ELSE Result([logged EXCEPT !.angle = (@ - degrees) % 360], cs, <<>>, "none", FALSE)

OboCar_right(c, degrees, t, cs) ==
    LET logged == OboCar_log_event(c, EventText("right", "", degrees), t)
    IN  IF in_browser
        THEN Result(logged, Called(cs, "rotate", <<degrees>>, ""), <<>>, "none", FALSE)
        ELSE Result([logged EXCEPT !.angle = (@ + degrees) % 360], cs, <<>>, "none", FALSE)

CarForward(d) ==
    LET r == OboCar_forward(Car, d, clock, <<>>)
    IN  InRange(r.car) /\ ReturnJs(r, Call("forward", d, "", <<>>, "none"))

CarBackward(d) ==
    LET r == OboCar_backward(Car, d, clock, <<>>)
    IN  InRange(r.car) /\ ReturnJs(r, Call("backward", d, "", <<>>, "none"))

CarLeft(g) == ReturnJs(OboCar_left(Car, g, clock, <<>>), Call("left", g, "", <<>>, "none"))

CarRight(g) == ReturnJs(OboCar_right(Car, g, clock, <<>>), Call("right", g, "", <<>>, "none"))

\* the renderers an OboCar runs next to: methods, failures, answers
CarMethods == {"move", "rotate", "getPosition"}

CarRenderers ==
    {[caps |-> CarMethods, broken |-> b, js |-> JsNormal] :
         b \in {{}, {"move"}, {"rotate"}, {"getPosition"}}}
    \cup {[caps |-> CarMethods \cup {"backward"}, broken |-> b, js |-> JsNormal] :
              b \in {{}, {"backward"}}}
    \cup {[caps |-> {"rotate", "getPosition"}, broken |-> {}, js |-> JsOdd],
          [caps |-> CarMethods, broken |-> {}, js |-> NoRenderer]}

\* OboCar(): __init__ of public/obocar.py, with or without window.oboCarAPI
InitCar ==
    /\ position = <<0, 0>>
    /\ angle = 0
    /\ battery_level = 0
    /\ total_distance = 0
    /\ obstacles = <<>>
    /\ event_log = <<>>
    /\ pre = [position |-> <<0, 0>>, angle |-> 0, battery_level |-> 0,
              total_distance |-> 0, obstacles |-> <<>>, event_log |-> <<>>]
    /\ \/ /\ in_browser = TRUE
          /\ \E r \in CarRenderers : caps = r.caps /\ broken = r.broken /\ js = r.js
       \/ /\ in_browser = FALSE
          /\ caps = {}
          /\ broken = {}
          /\ js = NoRenderer
    /\ calls = <<>>
    /\ last = Call("init", 0, "", <<>>, "none")
    /\ collided = 0
    /\ views = NoViews
    /\ clock = 0
    /\ loop = NoLoop

CarNext ==
    /\ clock < MaxCarSteps
    /\ \/ \E d \in Distances : CarForward(d)
       \/ \E d \in Distances : CarBackward(d)
       \/ \E g \in Degrees : CarLeft(g)
       \/ \E g \in Degrees : CarRight(g)

SpecCar == InitCar /\ [][CarNext]_vars

-----------------------------------------------------------------------------
(* src/public/obocar.py: run_loop, OboCar.repeat and the function repeat.   *)
(* The callable the caller passes is described by what its calls do:        *)
(* [until, then] returns None for its first `until` calls and from then on  *)
(* does `then` ("false": returns False, "raise": raises, "true": returns    *)
(* True); then = "none" returns None for ever.                              *)

DefaultMaxIterations == 1000

AlwaysNone == [until |-> 0, then |-> "none"]

Callables ==
    {AlwaysNone}
    \cup {[until |-> k, then |-> h] : k \in {0, 2}, h \in {"false", "raise", "true"}}

\* what call number n of the callable f does
Outcome(f, n) == IF f.then = "none" \/ n <= f.until THEN "none" ELSE f.then

\* repeat_wrapper of OboCar.repeat: the loop's fields after the call, and what
\* it returned to run_loop ("continue" for True or None)
OboCar_repeat_wrapper(l) ==
    IF l.times > 0 /\ l.counter >= l.times THEN [loop |-> l, result |-> "false"]
    ELSE LET o == Outcome(l.func, l.invoked + 1)
         IN  [loop |-> [l EXCEPT !.counter = @ + 1, !.invoked = @ + 1],
              result |-> IF o \in {"false", "raise"} THEN "false" ELSE "continue"]

\* repeat_wrapper of the function repeat, with its nonlocal times in `left`;
\* an exception of actions() goes on to run_loop
repeat_wrapper(l) ==
    LET o == Outcome(l.func, l.invoked + 1)
    IN  IF l.left > 0
        THEN [loop |-> [l EXCEPT !.left = @ - 1, !.invoked = @ + 1],
              result |-> IF o = "raise" THEN "raise"
                         ELSE IF l.left - 1 > 0 THEN "continue" ELSE "false"]
        ELSE IF l.left < 0
        THEN [loop |-> [l EXCEPT !.invoked = @ + 1],
              result |-> IF o = "raise" THEN "raise" ELSE "continue"]
        ELSE [loop |-> l, result |-> "false"]

\* loop_func() as run_loop calls it: the caller's function or a repeat_wrapper
loop_func(l) ==
    IF l.kind = "OboCar.repeat" THEN OboCar_repeat_wrapper(l)
    ELSE IF l.kind = "repeat" THEN repeat_wrapper(l)
    ELSE LET o == Outcome(l.func, l.invoked + 1)
         IN  [loop |-> [l EXCEPT !.invoked = @ + 1],
              result |-> IF o \in {"false", "raise"} THEN o ELSE "continue"]

\* one pass of `while iteration < max_iterations` in run_loop, standalone:
\* break on False or an exception, else iteration += 1; then return None
run_loop_pass(l) ==
    IF l.iteration < l.max_iterations
    THEN LET r == loop_func(l)
         IN  IF r.result \in {"false", "raise"}
             THEN [r.loop EXCEPT !.pc = "returned", !.ret = "None"]
             ELSE [r.loop EXCEPT !.iteration = @ + 1]
    ELSE [l EXCEPT !.pc = "returned", !.ret = "None"]

\* step_function of run_loop in the browser: one call by the scheduler
step_function(l) ==
    IF l.remaining_iterations <= 0 THEN l
    ELSE LET r == loop_func([l EXCEPT !.iteration_count = @ + 1])
         IN  IF r.result = "raise" THEN r.loop
             ELSE [r.loop EXCEPT !.remaining_iterations = @ - 1]

\* run_loop up to its loop: standalone the loop starts; in the browser the
\* state change is emitted when window.eventBus exists and step_function is
\* registered, and an exception of either makes run_loop return None
run_loop(kind, f, times, max_iterations) ==
    LET l == [NoLoop EXCEPT !.kind = kind, !.func = f, !.times = times, !.left = times,
                            !.max_iterations = max_iterations,
                            !.remaining_iterations = max_iterations]
    IN  IF ~in_browser THEN [loop |-> [l EXCEPT !.pc = "running"], calls |-> <<>>]
        ELSE LET cs1 == IF hasattr("eventBus") THEN Called(<<>>, "eventBus", <<1>>, "")
                        ELSE <<>>
                 cs2 == Called(cs1, "registerLoopCallback", <<>>, "")
             IN  IF hasattr("eventBus") /\ Raises("eventBus")
                 THEN [loop |-> [l EXCEPT !.pc = "returned", !.ret = "None"], calls |-> cs1]
                 ELSE IF Raises("registerLoopCallback")
                 THEN [loop |-> [l EXCEPT !.pc = "returned", !.ret = "None"], calls |-> cs2]
                 ELSE [loop |-> [l EXCEPT !.pc = "registered", !.ret = "loop_id"],
                       calls |-> cs2]

LoopIterations == {0, 1, 3}

RepeatTimes == {-1, 0, 1, 3}

Start(r) ==
    /\ loop.pc = "idle"
    /\ loop' = r.loop
    /\ calls' = r.calls
    /\ UNCHANGED <<in_browser, position, angle, battery_level, total_distance, obstacles,
                   event_log, caps, broken, js, last, pre, collided, views, clock>>

\* car.run_loop(loop_func, max_iterations)
RunLoop(f, n) == Start(run_loop("run_loop", f, 0, n))

\* car.repeat(times, actions)
CarRepeat(times, f) == Start(run_loop("OboCar.repeat", f, times, DefaultMaxIterations))

\* repeat(times, actions)
Repeat(times, f) == Start(run_loop("repeat", f, times, DefaultMaxIterations))

\* the standalone loop of run_loop goes through one pass
RunLoopPass ==
    /\ loop.pc = "running"
    /\ loop' = run_loop_pass(loop)
    /\ UNCHANGED <<in_browser, position, angle, battery_level, total_distance, obstacles,
                   event_log, caps, broken, js, calls, last, pre, collided, views, clock>>

\* the renderer's scheduler calls the registered step_function
SchedulerCalls ==
    /\ loop.pc = "registered"
    /\ loop.scheduled < MaxSchedulerCalls
    /\ loop' = [step_function(loop) EXCEPT !.scheduled = @ + 1]
    /\ UNCHANGED <<in_browser, position, angle, battery_level, total_distance, obstacles,
                   event_log, caps, broken, js, calls, last, pre, collided, views, clock>>

LoopRenderers ==
    {[caps |-> {"registerLoopCallback"}, broken |-> {}],
     [caps |-> {"registerLoopCallback", "eventBus"}, broken |-> {}],
     [caps |-> {"registerLoopCallback", "eventBus"}, broken |-> {"eventBus"}],
     [caps |-> {"registerLoopCallback"}, broken |-> {"registerLoopCallback"}],
     [caps |-> {}, broken |-> {}]}

\* OboCar() before its first run_loop
InitLoop ==
    /\ position = <<0, 0>>
    /\ angle = 0
    /\ battery_level = 0
    /\ total_distance = 0
    /\ obstacles = <<>>
    /\ event_log = <<>>
    /\ pre = [position |-> <<0, 0>>, angle |-> 0, battery_level |-> 0,
              total_distance |-> 0, obstacles |-> <<>>, event_log |-> <<>>]
    /\ \/ /\ in_browser = TRUE
          /\ \E r \in LoopRenderers : caps = r.caps /\ broken = r.broken
       \/ /\ in_browser = FALSE
          /\ caps = {}
          /\ broken = {}
    /\ js = NoRenderer
    /\ calls = <<>>
    /\ last = Call("init", 0, "", <<>>, "none")
    /\ collided = 0
    /\ views = NoViews
    /\ clock = 0
    /\ loop = NoLoop

LoopNext ==
    \/ \E f \in Callables, n \in LoopIterations : RunLoop(f, n)
    \/ \E t \in RepeatTimes, f \in Callables : CarRepeat(t, f)
    \/ \E t \in RepeatTimes, f \in Callables : Repeat(t, f)
    \/ RunLoopPass
    \/ SchedulerCalls

SpecLoop == InitLoop /\ [][LoopNext]_vars

-----------------------------------------------------------------------------
\* the vehicle of vehicle.py
Init == InitVehicle

Next == clock < MaxSteps /\ NextVehicle

Spec == Init /\ [][Next]_vars

\* the vehicle of public/python/obocar.py next to a renderer
BridgedNext == clock < MaxBridgedSteps /\ NextBridged

SpecBridged == InitBridged /\ [][BridgedNext]_vars

\* both vehicles
BothInit == InitVehicle \/ InitBridged

BothNext == Next \/ BridgedNext

SpecBoth == BothInit /\ [][BothNext]_vars

\* the vehicle of vehicle.py, turned left and right only
TurnsNext ==
    /\ clock < MaxTurns
    /\ \/ \E g \in Degrees : Left(g)
       \/ \E g \in Degrees : Right(g)

SpecTurns == InitVehicle /\ [][TurnsNext]_vars

\* the vehicle of vehicle.py, driven along the sides of a square
SquareSide == 300
SquareTurn == 90

SquareNext ==
    /\ clock < MaxSquareSteps
    /\ \/ Forward(SquareSide)
       \/ Right(SquareTurn)

SpecSquare == InitVehicle /\ [][SquareNext]_vars

\* the vehicle of vehicle.py, moved, turned and reset
DriveDegrees == {90}

DriveNext ==
    /\ clock < MaxDrive
    /\ \/ \E d \in Distances : Forward(d)
       \/ \E d \in Distances : Backward(d)
       \/ \E g \in DriveDegrees : Left(g)
       \/ \E g \in DriveDegrees : Right(g)
       \/ \E pattern \in generate_random_obstacles : Reset(pattern)

SpecDrive == InitVehicle /\ [][DriveNext]_vars

\* the vehicle of vehicle.py, its public attribute obstacles as created or
\* assigned by the caller, turned right and read through sensor
SensorScenes ==
    { << <<0, 500>> >>,
      << <<0, 500>>, <<0, 300>>, <<400, 0>> >>,
      << <<0, 2500>> >>,
      << <<300, 300>> >>,
      << <<-300, -10>> >> }

SensorDegrees == {30, 31, 90}
SensorNoises == {-20, 0, 20}

InitSensor ==
    /\ in_browser = FALSE
    /\ \E scene \in SensorScenes \cup generate_random_obstacles :
          /\ position = NewCar(scene).position
          /\ angle = NewCar(scene).angle
          /\ battery_level = NewCar(scene).battery_level
          /\ total_distance = NewCar(scene).total_distance
          /\ obstacles = NewCar(scene).obstacles
          /\ event_log = NewCar(scene).event_log
          /\ pre = NewCar(scene)
    /\ caps = {}
    /\ broken = {}
    /\ js = NoRenderer
    /\ calls = <<>>
    /\ last = Call("init", 0, "", <<>>, "none")
    /\ collided = 0
    /\ views = NoViews
    /\ clock = 0
    /\ loop = NoLoop

SensorNext ==
    /\ clock < MaxSensorSteps
    /\ \/ \E g \in SensorDegrees : Right(g)
       \/ \E direction \in Directions, noise \in SensorNoises : Sensor(direction, noise)

SpecSensor == InitSensor /\ [][SensorNext]_vars

\* the vehicle of vehicle.py, given the commands that write the event log
LogDirections == {"front"}

LogNext ==
    /\ clock < MaxLogSteps
    /\ \/ \E d \in Distances : Forward(d)
       \/ \E d \in Distances : Backward(d)
       \/ \E g \in DriveDegrees : Left(g)
       \/ \E g \in DriveDegrees : Right(g)
       \/ \E direction \in LogDirections, noise \in Noises : Sensor(direction, noise)

SpecLog == InitVehicle /\ [][LogNext]_vars

\* the vehicle of vehicle.py and a caller that keeps and changes the lists
\* get_event_log() and get_obstacles() returned
CallerBatteries == {0}

CallerNext ==
    /\ clock < MaxCallerSteps
    /\ \/ Forward(SquareSide)
       \/ \E p \in AddPoints : AddObstacle(p)
       \/ \E pattern \in generate_random_obstacles : Reset(pattern)
       \/ GetEventLog
       \/ GetObstacles
       \/ CallerAppendsEvent
       \/ CallerRemovesEvent
       \/ \E i \in 1..2, v \in CallerBatteries : CallerSetsBattery(i, v)
       \/ \E p \in AddPoints : CallerAppendsObstacle(p)
       \/ CallerClearsObstacles

SpecCaller == InitVehicle /\ [][CallerNext]_vars

-----------------------------------------------------------------------------
(* Properties *)

\* C1: in vehicle.py, backward(d) leaves the vehicle (position, heading,
\* battery, total_distance, obstacles, event log with the appended event)
\* exactly as forward(-d) does from the same state, for d < 0, d = 0, d > 0.
C1_BackwardIsForwardNegated ==
    (~in_browser /\ last.op = "backward")
        => Car = forward(pre, 0 - last.num, clock - 1).car

C1_Witness ==
    /\ ~in_browser
    /\ last.op = "backward"
    /\ last.num = 300
    /\ pre.angle # 0
    /\ position # pre.position
    /\ Len(event_log) = Len(pre.event_log) + 1

\* the sum of the degrees turned by the left/right events of a log, right
\* counted positive
RECURSIVE NetDegrees(_)
NetDegrees(log) ==
    IF log = <<>> THEN 0
    ELSE LET e == log[Len(log)].event
             rest == NetDegrees(SubSeq(log, 1, Len(log) - 1))
         IN  IF e.cmd = "right" THEN rest + e.num
             ELSE IF e.cmd = "left" THEN rest - e.num
             ELSE rest

\* C2: after any sequence of left/right calls the heading is the initial
\* heading plus the right degrees minus the left degrees, modulo 360, and it
\* is in [0, 360) after every call.
C2_HeadingIsNetTurn ==
    /\ angle \in 0..359
    /\ angle = (0 + NetDegrees(event_log)) % 360

C2_Witness ==
    /\ Len(event_log) = 3
    /\ event_log[1].event = EventText("left", "", -90)
    /\ event_log[2].event = EventText("right", "", 405)
    /\ event_log[3].event = EventText("left", "", 405)
    /\ angle = 90

\* the commands logged are forward(3), right(90), four times over
SquareDriven ==
    /\ Len(event_log) = 8
    /\ \A i \in 1..8 :
          event_log[i].event = IF i % 2 = 1 THEN EventText("forward", "", SquareSide)
                                            ELSE EventText("right", "", SquareTurn)

\* C3: forward(3), right(90) four times from (0,0), heading 0, ends at
\* (0,0) within a hundredth and at heading 0.
C3_SquareCloses ==
    SquareDriven =>
        /\ Abs(position[1]) <= 1
        /\ Abs(position[2]) <= 1
        /\ angle = 0

C3_Witness ==
    /\ SquareDriven
    /\ event_log[4].position = <<300, 300>>
    /\ event_log[6].position = <<300, 0>>
    /\ total_distance = 4 * SquareSide

\* the sum of |d| over the forward events of a log
RECURSIVE LoggedDistance(_)
LoggedDistance(log) ==
    IF log = <<>> THEN 0
    ELSE LET e == log[Len(log)].event
             rest == LoggedDistance(SubSeq(log, 1, Len(log) - 1))
         IN  IF e.cmd = "forward" THEN rest + Abs(e.num) ELSE rest

\* the number of left/right events of a log
LoggedTurns(log) ==
    Cardinality({i \in 1..Len(log) : log[i].event.cmd \in {"left", "right"}})

\* C4: from a fresh or reset vehicle, without a collision, the battery is
\* max(0, 100 - D - 0.5 k), D the distance moved and k the number of turns.
C4_BatteryFormula ==
    collided = 0 =>
        battery_level = Max(0, FullBattery - LoggedDistance(event_log)
                                 - TurnCost * LoggedTurns(event_log))

C4_Witness ==
    /\ collided = 0
    /\ LoggedDistance(event_log) = 12000
    /\ LoggedTurns(event_log) = 1
    /\ battery_level = 0

\* C5: a new vehicle has position (0,0), heading 0, battery 100 and total
\* distance 0, and reset() restores these four values from any state.
C5_ResetRestores ==
    (~in_browser /\ last.op \in {"init", "reset"}) =>
        /\ position = <<0, 0>>
        /\ angle = 0
        /\ battery_level = FullBattery
        /\ total_distance = 0

C5_Witness ==
    /\ ~in_browser
    /\ last.op = "reset"
    /\ pre.position # <<0, 0>>
    /\ pre.battery_level < FullBattery
    /\ pre.total_distance > 0
    /\ total_distance = 0

\* C6 as stated: right after reset() the event log is empty.
C6_LogEmptyAfterReset == last.op = "reset" => event_log = <<>>

\* C6 amended: right after reset() the event log holds exactly one event,
\* the one that records reset() with the initial position, heading and
\* battery; no earlier event remains.
C6_LogHoldsOnlyReset ==
    last.op = "reset" =>
        /\ Len(event_log) = 1
        /\ event_log[1].event = EventText("reset", "", 0)
        /\ event_log[1].position = <<0, 0>>
        /\ event_log[1].angle = 0
        /\ event_log[1].battery = FullBattery

C6_Witness ==
    /\ last.op = "reset"
    /\ Len(pre.event_log) >= 1
    /\ Len(event_log) = 1

\* C7: sensor with a valid direction returns at least 0.1, next to a
\* renderer as well, whatever getSensor answers.
C7_ReadingAtLeastMin ==
    (last.op = "sensor" /\ last.raised = "none") => last.ret[1] >= MinReading

\* C8: sensor with an unknown direction raises ValueError and leaves the
\* vehicle's fields as they were; no renderer method is called.
C8_InvalidDirectionRejected ==
    (last.op = "sensor" /\ last.dir \notin Directions) =>
        /\ last.raised = "ValueError"
        /\ Car = pre
        /\ calls = <<>>

C8_Witness ==
    /\ in_browser
    /\ last.op = "sensor"
    /\ last.dir = "up"
    /\ last.raised = "ValueError"
    /\ caps = Methods
    /\ broken = {}

\* every renderer method exists and none raises
RendererSucceeds == caps = Methods /\ broken = {}

\* C9: after forward/left/right next to a renderer whose calls all succeed,
\* position, heading, battery and total distance equal each non-null value
\* the renderer reports (x from its first axis, y from its third), 0 included.
C9_LocalEqualsRenderer ==
    (in_browser /\ RendererSucceeds /\ last.op \in {"forward", "left", "right"}) =>
        /\ ~js.pos_null => position = <<js.pos[1], js.pos[3]>>
        /\ ~js.rot_null => angle = js.rot
        /\ ~js.bat_null => battery_level = js.bat
        /\ ~js.dist_null => total_distance = js.dist

\* C10: whichever renderer method raises, every operation returns normally;
\* only sensor with an unknown direction raises.
C10_NoRendererFailureEscapes ==
    in_browser => (last.raised = "none" \/ (last.op = "sensor" /\ last.dir \notin Directions))

C10_Witness ==
    /\ in_browser
    /\ last.op = "battery"
    /\ broken = {"getRotation"}
    /\ \E i \in 1..Len(calls) : calls[i].method = "getRotation"
    /\ last.raised = "none"

\* C11: next to a renderer whose move (forward, backward) or rotate (left,
\* right) raises, the position resp. the heading after the command is the
\* one the local arithmetic gives, with or without updateState.
C11_LocalResultKept ==
    in_browser =>
        /\ (last.op = "forward" /\ "move" \in caps \cap broken)
              => position = forward(pre, last.num, clock - 1).car.position
        /\ (last.op = "backward" /\ Raises("move"))
              => position = forward(pre, 0 - last.num, clock - 1).car.position
        /\ (last.op = "left" /\ Raises("rotate"))
              => angle = (pre.angle - last.num) % 360
        /\ (last.op = "right" /\ Raises("rotate"))
              => angle = (pre.angle + last.num) % 360

\* the calls of method m among the renderer calls of the last operation
Sent(m) == SelectSeq(calls, LAMBDA k : k.method = m)

\* the renderer call m(arg)
Command(m, arg) == [method |-> m, args |-> <<arg>>, dir |-> ""]

\* C12: forward(d), backward(d), left(g), right(g) next to a renderer that
\* has the method send it exactly one command, move(d), move(-d), rotate(-g),
\* rotate(g), and send it before any other renderer call.
C12_OneCommandSent ==
    in_browser =>
        /\ (last.op = "forward" /\ hasattr("move"))
              => (Sent("move") = <<Command("move", last.num)>>
                  /\ calls[1].method = "move")
        /\ (last.op = "backward" /\ hasattr("move"))
              => (Sent("move") = <<Command("move", 0 - last.num)>>
                  /\ calls[1].method = "move")
        /\ (last.op = "left" /\ hasattr("rotate"))
              => (Sent("rotate") = <<Command("rotate", 0 - last.num)>>
                  /\ calls[1].method = "rotate")
        /\ (last.op = "right" /\ hasattr("rotate"))
              => (Sent("rotate") = <<Command("rotate", last.num)>>
                  /\ calls[1].method = "rotate")

\* C13: in vehicle.py the battery is between 0 and 100 in every state, and
\* after every operation other than reset() it is equal to or lower than
\* before the operation.
C13_BatteryBounded ==
    ~in_browser =>
        /\ battery_level >= 0
        /\ battery_level <= FullBattery
        /\ last.op \notin {"init", "reset"} => battery_level <= pre.battery_level

C13_Witness ==
    /\ ~in_browser
    /\ last.op = "forward"
    /\ collided = 1
    /\ pre.battery_level = 4000
    /\ battery_level = 0

\* C14: in vehicle.py total_distance is the sum of |d| over the forward(d)
\* and backward(d) calls since creation or the last reset(); each such call
\* adds |d|, no operation other than reset() lowers it, and left, right,
\* sensor, wait and add_obstacle leave it as it was.
C14_DistanceIsSumOfMoves ==
    ~in_browser =>
        /\ total_distance = LoggedDistance(event_log)
        /\ last.op \in {"forward", "backward"}
              => total_distance = pre.total_distance + Abs(last.num)
        /\ last.op \notin {"init", "reset"} => total_distance >= pre.total_distance
        /\ last.op \in {"left", "right", "sensor", "wait", "add_obstacle"}
              => total_distance = pre.total_distance

C14_Witness ==
    /\ ~in_browser
    /\ last.op = "backward"
    /\ last.num = -6000
    /\ pre.total_distance = 300
    /\ total_distance = 6300

\* C15: in vehicle.py forward(d) from (x, y) ends at (x, y+d) at heading 0,
\* (x+d, y) at heading 90, (x, y-d) at heading 180 and (x-d, y) at heading
\* 270; after forward(3) on a fresh vehicle get_position() is (0.0, 3.0).
C15_AxisConvention ==
    (~in_browser /\ last.op = "forward") =>
        LET x == pre.position[1]
            y == pre.position[2]
            d == last.num
        IN  /\ pre.angle = 0 => position = <<x, y + d>>
            /\ pre.angle = 90 => position = <<x + d, y>>
            /\ pre.angle = 180 => position = <<x, y - d>>
            /\ pre.angle = 270 => position = <<x - d, y>>
            /\ (pre.angle = 0 /\ x = 0 /\ y = 0 /\ d = 300)
                  => get_position(Car) = <<0, 300>>

C15_Witness ==
    /\ ~in_browser
    /\ last.op = "forward"
    /\ last.num = 300
    /\ pre.angle = 270
    /\ pre.position = <<0, 300>>
    /\ position = <<-300, 300>>

\* the minimal angular difference between the directions b and s, in degrees
MinAngular(b, s) ==
    LET delta == (b - s) % 360
    IN  IF delta <= 360 - delta THEN delta ELSE 360 - delta

\* the bearing of obstacle i seen from the vehicle c, and its distance
Bearing(c, i) ==
    Atan2Deg(c.obstacles[i][1] - c.position[1], c.obstacles[i][2] - c.position[2])

Range(c, i) ==
    Distance(c.obstacles[i][1] - c.position[1], c.obstacles[i][2] - c.position[2])

\* the obstacles of c within 30 degrees of the sensor direction and closer
\* than the sensor range
InCone(c, direction) ==
    {i \in 1..Len(c.obstacles) :
        /\ MinAngular(Bearing(c, i), (c.angle + sensor_angles(direction)) % 360)
              <= ConeHalfWidth
        /\ Range(c, i) < SensorRange}

\* the distance of the nearest of them, the sensor range if there is none
Nearest(c, direction) ==
    IF InCone(c, direction) = {} THEN SensorRange
    ELSE CHOOSE m \in {Range(c, i) : i \in InCone(c, direction)} :
             \A i \in InCone(c, direction) : m <= Range(c, i)

\* C16: in vehicle.py sensor(direction) returns max(0.1, m + noise), m the
\* distance of the nearest obstacle in the cone and closer than 20, or 20,
\* and noise in [-0.2, 0.2]; with the single obstacle (0,5), at the origin
\* with heading 0, sensor('front') is in [4.8, 5.2].
C16_ReadingIsNearestPlusNoise ==
    (~in_browser /\ last.op = "sensor" /\ last.raised = "none") =>
        LET m == Nearest(pre, last.dir)
            r == last.ret[1]
        IN  /\ last.num \in -20..20
            /\ r = Max(MinReading, m + last.num)
            /\ r >= Max(MinReading, m - 20)
            /\ r <= m + 20
            /\ (pre.obstacles = << <<0, 500>> >> /\ pre.position = <<0, 0>>
                  /\ pre.angle = 0 /\ last.dir = "front") => r \in 480..520

C16_Witness ==
    /\ ~in_browser
    /\ last.op = "sensor"
    /\ last.dir = "front"
    /\ last.num = -20
    /\ pre.obstacles = << <<0, 500>> >>
    /\ pre.position = <<0, 0>>
    /\ pre.angle = 0
    /\ last.ret = <<480>>

\* C17: for every integer bearing b and each sensor angle s of the vehicle
\* the code's abs((b - s + 180) mod 360 - 180) is the minimal angular
\* difference of b and s; no obstacle is in the cone of two directions; and
\* sensor(direction) counts a lone obstacle closer than the range iff that
\* difference between its bearing and (heading + offset) mod 360 is <= 30.
C17_ConeMembership ==
    (~in_browser /\ last.op = "sensor" /\ last.raised = "none") =>
        LET s == (pre.angle + sensor_angles(last.dir)) % 360
        IN  /\ \A b \in -180..180, d \in Directions :
                  angle_diff(b, (pre.angle + sensor_angles(d)) % 360)
                      = MinAngular(b, (pre.angle + sensor_angles(d)) % 360)
            /\ \A i \in 1..Len(pre.obstacles) :
                  Cardinality({d \in Directions :
                      angle_diff(Bearing(pre, i),
                                 (pre.angle + sensor_angles(d)) % 360)
                          <= ConeHalfWidth}) <= 1
            /\ (Len(pre.obstacles) = 1 /\ Range(pre, 1) < SensorRange - 40) =>
                  (last.ret[1] = Max(MinReading, Range(pre, 1) + last.num)
                      <=> MinAngular(Bearing(pre, 1), s) <= ConeHalfWidth)

C17_Witness ==
    /\ ~in_browser
    /\ last.op = "sensor"
    /\ last.dir = "left"
    /\ pre.angle = 31
    /\ pre.obstacles = << <<-300, -10>> >>
    /\ MinAngular(Bearing(pre, 1), 301) = 33
    /\ last.ret[1] = SensorRange + last.num

\* the square of the distance between obstacle i and the vehicle
SquaredRange(i) ==
    (obstacles[i][1] - position[1]) * (obstacles[i][1] - position[1])
  + (obstacles[i][2] - position[2]) * (obstacles[i][2] - position[2])

\* the obstacles closer than 1.0 to the vehicle, and those farther than 1.0
Touching == {i \in 1..Len(obstacles) : SquaredRange(i) < Scale * Scale}
Clear == {i \in 1..Len(obstacles) : SquaredRange(i) > Scale * Scale}

\* C18: in vehicle.py a forward(d)/backward(d) that ends with an obstacle
\* closer than 1.0 lowers the battery by |d| and then by 10, each floored at
\* 0, once however many obstacles are that close; one that ends with every
\* obstacle farther than 1.0 lowers it by |d|, floored at 0.
C18_CollisionAccounting ==
    (~in_browser /\ last.op \in {"forward", "backward"}) =>
        LET moved == Max(0, pre.battery_level - Abs(last.num))
        IN  /\ Touching # {} => battery_level = Max(0, moved - 1000)
            /\ Clear = 1..Len(obstacles) => battery_level = moved

C18_Witness ==
    /\ ~in_browser
    /\ last.op = "backward"
    /\ last.num = 300
    /\ Cardinality(Touching) = 2
    /\ pre.battery_level = 9700
    /\ battery_level = 8400

\* the command an event of the log must name after the call in last
Logged(call) ==
    CASE call.op = "forward" -> EventText("forward", "", call.num)
      [] call.op = "backward" -> EventText("forward", "", 0 - call.num)
      [] call.op = "left" -> EventText("left", "", call.num)
      [] call.op = "right" -> EventText("right", "", call.num)
      [] call.op = "sensor" -> EventText("sensor", call.dir, Round1(call.ret[1]))

\* C19: in vehicle.py each forward, backward, left, right and sensor with a
\* valid direction appends exactly one event, the one of that call; after n
\* such calls since creation the log holds n events, the i-th written by the
\* i-th call.
C19_OneEventPerCall ==
    ~in_browser =>
        /\ Len(event_log) = clock
        /\ \A i \in 1..Len(event_log) : event_log[i].timestamp = i - 1
        /\ last.op # "init" =>
              /\ Len(event_log) = Len(pre.event_log) + 1
              /\ SubSeq(event_log, 1, Len(pre.event_log)) = pre.event_log
              /\ event_log[Len(event_log)].event = Logged(last)

C19_Witness ==
    /\ ~in_browser
    /\ clock = 3
    /\ Len(event_log) = 3
    /\ event_log[1].event = EventText("forward", "", -300)
    /\ event_log[2].event.cmd = "sensor"
    /\ event_log[3].event = EventText("left", "", 90)
    /\ last.op = "left"

\* what get_event_log shows of a log: every field of every event
Snapshots(log) ==
    [i \in 1..Len(log) |->
        [timestamp |-> log[i].timestamp, event |-> log[i].event,
         position |-> log[i].position, angle |-> log[i].angle,
         battery |-> log[i].battery]]

\* C20: every operation other than reset() leaves the events already in the
\* log as they were and in their order, so the log before the operation is a
\* prefix of the log after it; the snapshot of an event does not follow the
\* vehicle when it moves or is reconciled later.
C20_LogAppendOnly ==
    last.op \notin {"init", "reset"} =>
        /\ Len(pre.event_log) <= Len(event_log)
        /\ \A i \in 1..Len(pre.event_log) :
              Snapshots(event_log)[i] = Snapshots(pre.event_log)[i]

C20_Witness ==
    /\ in_browser
    /\ last.op = "battery"
    /\ Len(pre.event_log) = 1
    /\ pre.event_log[1].event.cmd = "wait"
    /\ pre.position = <<0, 0>>
    /\ position = <<120, 340>>
    /\ event_log[1].position = <<0, 0>>

\* the statements by which the caller changes a list it was returned
CallerLogStatements == {"events.append", "del events[0]", "events[i]['battery'] = v"}
CallerObstacleStatements == {"obstacles.append", "obstacles.clear"}

\* C21: whatever the caller does to the list get_event_log() returned,
\* adding or removing entries or changing a field of a returned event, a
\* later get_event_log() shows the events as they were.
C21_ReturnedLogIsCopy ==
    (~in_browser /\ last.op \in CallerLogStatements) =>
        Snapshots(event_log) = Snapshots(pre.event_log)

\* C22: next to a renderer sensor with a valid direction returns the
\* reading of getSensor when that call succeeds with a non-null value, and
\* the local ray cast from the reconciled position (nearest obstacle in the
\* cone plus noise, at least 0.1) when it raises or answers null; either
\* way one event is appended.
C22_RendererReadingFirst ==
    (in_browser /\ last.op = "sensor" /\ last.dir \in Directions) =>
        /\ last.raised = "none"
        /\ Len(event_log) = Len(pre.event_log) + 1
        /\ SubSeq(event_log, 1, Len(pre.event_log)) = pre.event_log
        /\ event_log[Len(event_log)].event.cmd = "sensor"
        /\ last.ret = IF ~Raises("getSensor") /\ ~js.reading_null
                      THEN <<js.reading>>
                      ELSE <<Max(MinReading, Nearest(Car, last.dir) + last.num)>>

C22_Witness ==
    /\ in_browser
    /\ last.op = "sensor"
    /\ last.dir = "right"
    /\ caps = Methods
    /\ broken = {}
    /\ js.reading_null
    /\ last.ret = <<SensorRange + last.num>>
    /\ Len(event_log) = Len(pre.event_log) + 1

\* the reconciliation queries of _sync_with_3d_scene
Queries == {"getPosition", "getRotation", "getBattery", "getDistanceTraveled"}

\* the fields a forward, left or right of vehicle.py leaves from the state
\* the last command was entered in
LocalResult ==
    CASE last.op = "forward" -> forward(pre, last.num, clock - 1).car
      [] last.op = "left" -> left(pre, last.num, clock - 1)
      [] last.op = "right" -> right(pre, last.num, clock - 1)

\* C23: next to a renderer that lacks exactly one of the four queries and
\* whose calls all succeed, a forward, left or right leaves the local value
\* only for that capability: each other field is the renderer's reported
\* (non-null, non-zero) value; e.g. without getPosition the position is the
\* local one and heading, battery and total distance are the renderer's.
C23_OnlyMissingCapabilityLocal ==
    (in_browser /\ last.op \in {"forward", "left", "right"} /\ broken = {}
        /\ Cardinality(Queries \ caps) = 1 /\ Methods \ caps \subseteq Queries) =>
        /\ position = IF hasattr("getPosition") /\ ~js.pos_null
                      THEN <<js.pos[1], js.pos[3]>> ELSE LocalResult.position
        /\ angle = IF hasattr("getRotation") /\ Truthy(js.rot, js.rot_null)
                   THEN js.rot ELSE LocalResult.angle
        /\ battery_level = IF hasattr("getBattery") /\ Truthy(js.bat, js.bat_null)
                           THEN js.bat ELSE LocalResult.battery_level
        /\ total_distance = IF hasattr("getDistanceTraveled")
                               /\ Truthy(js.dist, js.dist_null)
                            THEN js.dist ELSE LocalResult.total_distance

\* C24: a vehicle of public/python/obocar.py whose constructor could not
\* reach the renderer (reset() raised) runs standalone from then on: no
\* later operation calls a renderer method.
C24_StandaloneAfterFailedConnect ==
    (in_browser /\ Raises("reset") /\ last.op # "init") => calls = <<>>

\* C25: next to a renderer the heading is in [0, 360) after every command,
\* whatever rotation the renderer reports during the reconciliation.
C25_HeadingNormalised ==
    in_browser => (angle >= 0 /\ angle < 360)

\* C26: after reset() the obstacles are one of the patterns of
\* _generate_random_obstacles, whatever they were before; obstacles added
\* with add_obstacle are gone.
C26_ResetRegeneratesObstacles ==
    (~in_browser /\ last.op = "reset") =>
        /\ obstacles \in generate_random_obstacles
        /\ \A p \in AddPoints : \A i \in 1..Len(obstacles) : obstacles[i] # p

C26_Witness ==
    /\ ~in_browser
    /\ last.op = "reset"
    /\ Len(pre.obstacles) = Len(WallPattern) + 1
    /\ pre.obstacles[Len(pre.obstacles)] = <<0, 300>>
    /\ obstacles = CirclePattern

\* C27: add_obstacle(x, y) appends (x, y) to the obstacles get_obstacles()
\* returns, also when it is there already, keeps the earlier ones in place
\* and changes no other field; get_obstacles() changes nothing, and what the
\* caller does to the list it returned does not reach the vehicle.
C27_AddObstacleAppends ==
    ~in_browser =>
        /\ last.op = "add_obstacle" =>
              /\ get_obstacles(Car).items = Append(pre.obstacles, last.ret)
              /\ Car = [pre EXCEPT !.obstacles = obstacles]
        /\ last.op = "get_obstacles" =>
              /\ views.obstacles = pre.obstacles
              /\ Car = pre
        /\ last.op \in CallerObstacleStatements => Car = pre

C27_Witness ==
    /\ ~in_browser
    /\ last.op = "add_obstacle"
    /\ \E i \in 1..Len(pre.obstacles) : pre.obstacles[i] = last.ret
    /\ Len(obstacles) = Len(pre.obstacles) + 1
    /\ views.has_obstacles
    /\ views.obstacles = pre.obstacles

\* the obstacles farther than 10.0 from the vehicle
Far == {i \in 1..Len(obstacles) : SquaredRange(i) > (10 * Scale) * (10 * Scale)}

\* C28: in vehicle.py status() returns exactly the keys position, heading,
\* battery, distance, speed, obstacles_nearby; the first four are what
\* get_position(), get_heading(), battery() and distance() return and
\* obstacles_nearby is the number of obstacles at distance <= 10.0; the
\* vehicle and its event log are as before the call.
C28_StatusReportsGetters ==
    (~in_browser /\ last.op = "status") =>
        /\ DOMAIN status(pre) = {"position", "heading", "battery", "distance",
                                 "speed", "obstacles_nearby"}
        /\ <<last.ret[1], last.ret[2]>> = get_position(pre)
        /\ last.ret[3] = get_heading(pre)
        /\ last.ret[4] = battery(pre)
        /\ last.ret[5] = distance_travelled(pre)
        /\ last.ret[7] = Len(obstacles) - Cardinality(Far)
        /\ Car = pre

C28_Witness ==
    /\ ~in_browser
    /\ last.op = "status"
    /\ obstacles = WallPattern
    /\ position = <<0, 0>>
    /\ pre.battery_level = 9950
    /\ last.ret[7] = 1

\* C29: the event a forward, backward, left or right appends shows the
\* position, heading and battery the vehicle has when the command returns.
C29_EventRecordsResult ==
    (~in_browser /\ last.op \in {"forward", "backward", "left", "right"}) =>
        LET e == event_log[Len(event_log)]
        IN  /\ e.position = position
            /\ e.angle = angle
            /\ e.battery = battery_level

\* C30: when a query of the reconciliation (getPosition, getRotation,
\* getBattery, getDistanceTraveled) raises during a forward, left or right,
\* position, heading, battery and total distance are all the local results;
\* no field is the renderer's while another is local.
C30_ReconciliationAllOrNothing ==
    (in_browser /\ last.op \in {"forward", "left", "right"}
        /\ Queries \cap caps \cap broken # {}) =>
        /\ position = LocalResult.position
        /\ angle = LocalResult.angle
        /\ battery_level = LocalResult.battery_level
        /\ total_distance = LocalResult.total_distance

\* C31: the reconciliation only reads from the renderer: no operation sends
\* it the local position or heading, so after a forward whose calls all
\* succeed the renderer was told move(d) and nothing else that sets its state.
C31_ReconciliationOnlyReads ==
    in_browser =>
        /\ Sent("updateState") = <<>>
        /\ (last.op = "forward" /\ RendererSucceeds) =>
              \A i \in 1..Len(calls) :
                  calls[i].method \in Queries \cup {"move"}

\* C32: an OboCar next to a renderer keeps its local model going: when
\* rotate raises, left(g)/right(g) leave the heading (heading -/+ g) mod 360,
\* and when move raises, forward(d)/backward(d) leave the position advanced by
\* d resp. -d times (sin heading, cos heading).
C32_LocalModelNeverSkipped ==
    in_browser =>
        /\ (last.op = "left" /\ Raises("rotate"))
              => angle = (pre.angle - last.num) % 360
        /\ (last.op = "right" /\ Raises("rotate"))
              => angle = (pre.angle + last.num) % 360
        /\ (last.op = "forward" /\ "move" \in caps \cap broken)
              => position = calculate_forward_position(pre, last.num).position
        /\ (last.op = "backward" /\ ~hasattr("backward") /\ Raises("move"))
              => position = calculate_forward_position(pre, 0 - last.num).position

\* C33: standalone, car.repeat(times, actions) with times >= 0 and actions
\* that return None and never raise invokes actions exactly `times` times:
\* never more while the loop runs, and exactly that many when it has returned.
C33_RepeatInvokesTimes ==
    (~in_browser /\ loop.kind = "OboCar.repeat" /\ loop.func = AlwaysNone
        /\ loop.times >= 0) =>
        /\ loop.invoked <= loop.times
        /\ loop.pc = "returned" => loop.invoked = loop.times

\* the calls of the caller's function so far that returned False or raised
Stops(l) == {n \in 1..l.invoked : Outcome(l.func, n) \in {"false", "raise"}}

\* C34: standalone, run_loop invokes loop_func at most max_iterations times,
\* stops at the first False or exception and returns None, so repeat(-1, ...)
\* returns after 1000 invocations; in the browser the registered step function
\* executes loop_func at most max_iterations times however often it is called.
C34_RunLoopBounded ==
    /\ (~in_browser /\ loop.pc # "idle") =>
          /\ loop.invoked <= Max(loop.max_iterations, 0)
          /\ loop.iteration <= Max(loop.max_iterations, 0)
          /\ loop.pc = "returned" => loop.ret = "None"
          /\ loop.kind = "run_loop" =>
                /\ loop.pc = "running" => Stops(loop) = {}
                /\ loop.pc = "returned" => Stops(loop) \subseteq {loop.invoked}
                /\ (loop.pc = "returned" /\ Stops(loop) = {})
                      => loop.invoked = Max(loop.max_iterations, 0)
          /\ (loop.kind # "run_loop" /\ loop.times = -1 /\ loop.func = AlwaysNone
                 /\ loop.pc = "returned") => loop.invoked = DefaultMaxIterations
    /\ (in_browser /\ loop.pc = "registered") =>
          loop.invoked <= Max(loop.max_iterations, 0)

\* the log of the vehicle starts with the log it had when the last operation began
LogExtended ==
    /\ Len(event_log) >= Len(pre.event_log)
    /\ SubSeq(event_log, 1, Len(pre.event_log)) = pre.event_log

\* C35: standalone frame conditions: left/right change only heading, battery
\* (0.5, floored at 0) and the log, with no collision penalty wherever the
\* obstacles are; forward/backward keep the heading; forward, backward, left,
\* right and sensor keep the obstacles; sensor changes only the log.
C35_FrameConditions ==
    ~in_browser =>
        /\ last.op \in {"left", "right"} =>
              /\ position = pre.position
              /\ total_distance = pre.total_distance
              /\ battery_level = Max(0, pre.battery_level - TurnCost)
              /\ obstacles = pre.obstacles
              /\ LogExtended
        /\ last.op \in {"forward", "backward"} =>
              /\ angle = pre.angle
              /\ obstacles = pre.obstacles
        /\ last.op = "sensor" =>
              /\ position = pre.position
              /\ angle = pre.angle
              /\ battery_level = pre.battery_level
              /\ total_distance = pre.total_distance
              /\ obstacles = pre.obstacles
              /\ LogExtended

\* a left turn next to an obstacle inside the collision radius cost 0.5 only
C35_Witness ==
    /\ ~in_browser
    /\ last.op = "left"
    /\ Touching # {}
    /\ pre.battery_level >= CollisionPenalty
    /\ battery_level = pre.battery_level - TurnCost
    /\ angle # pre.angle

\* the distance the last forward or backward drove along the heading
Driven == IF last.op = "backward" THEN 0 - last.num ELSE last.num

\* C36: an empty battery blocks nothing: forward/backward with a battery of 0
\* or below |d| still move the full distance and add |d| to total_distance,
\* left/right at 0 still turn fully, and a battery of 0 stays 0 until reset().
C36_EmptyBatteryNeverBlocks ==
    ~in_browser =>
        /\ (last.op \in {"forward", "backward"}
               /\ pre.battery_level <= Abs(last.num)) =>
              /\ position[1] = pre.position[1]
                                  + RoundDiv(Driven * Sin(pre.angle), SinScale)
              /\ position[2] = pre.position[2]
                                  + RoundDiv(Driven * Cos(pre.angle), SinScale)
              /\ total_distance = pre.total_distance + Abs(last.num)
              /\ battery_level = 0
        /\ (last.op = "left" /\ pre.battery_level = 0) =>
              angle = (pre.angle - last.num) % 360 /\ battery_level = 0
        /\ (last.op = "right" /\ pre.battery_level = 0) =>
              angle = (pre.angle + last.num) % 360 /\ battery_level = 0
        /\ (pre.battery_level = 0 /\ last.op \notin {"init", "reset"}) =>
              battery_level = 0

\* a forward or backward that began with an empty battery moved the vehicle
C36_Witness ==
    /\ ~in_browser
    /\ last.op \in {"forward", "backward"}
    /\ pre.battery_level = 0
    /\ position # pre.position
    /\ total_distance = pre.total_distance + Abs(last.num)
    /\ battery_level = 0

\* the battery after the last forward or backward, before any penalty
Drained == Max(0, pre.battery_level - Abs(last.num))

\* C37: the collision penalty is charged by every forward or backward that
\* ends with an obstacle nearer than 1.0, also when the call before it ended
\* at the same obstacle and when the distance is 0: such a call leaves the
\* battery at max(0, battery after the drain - 10), and forward(0) stays put.
C37_PenaltyPerCall ==
    (~in_browser /\ last.op \in {"forward", "backward"}) =>
        /\ Touching # {} => battery_level = Max(0, Drained - CollisionPenalty)
        /\ Touching = {} /\ Clear = 1..Len(obstacles) => battery_level = Drained
        /\ last.num = 0 => position = pre.position

\* the second of two forward(0)/backward(0) at an obstacle: 20 lost in all
C37_Witness ==
    /\ ~in_browser
    /\ last.op \in {"forward", "backward"}
    /\ last.num = 0
    /\ Touching # {}
    /\ pre.battery_level = FullBattery - CollisionPenalty
    /\ battery_level = FullBattery - 2 * CollisionPenalty
    /\ position = pre.position

=============================================================================
